---- MODULE Spec2Model ----
(***************************************************************************)
(* Model of src/streamlit-app.py: submit_batch_with_webhook, the batch     *)
(* submitter of the Property Address Scraper.  One run of the function is  *)
(* a sequence of steps, one per blocking call or block of straight-line    *)
(* code; the outcome of every outbound HTTP call is chosen by the          *)
(* environment.                                                            *)
(***************************************************************************)
EXTENDS Integers, Sequences, FiniteSets, TLC

VARIABLES
    batch_size,     \* argument batch_size
    addresses,      \* argument addresses
    pc,             \* position of the run in the function
    total_batches,  \* local total_batches (line 44)
    i,              \* loop variable i (line 56)
    batch,          \* local batch (line 57)
    current_batch,  \* local current_batch (line 58)
    response,       \* outcome of the current requests.get (line 74)
    exc,            \* description of the exception being handled (line 115)
    results,        \* local results (line 43)
    summary,        \* local summary (line 134)
    progress,       \* values handed to progress_bar.progress, in order
    gets,           \* lookup requests issued so far: the batch each carried
    responses,      \* outcome of each lookup request issued so far
    posts,          \* webhook POSTs attempted so far
    log,            \* order of the run's observable events
    df,             \* argument df of format_addresses_from_dataframe
    formatted_addresses, \* its local formatted_addresses (line 17)
    fpc             \* position of the formatter

subVars == <<batch_size, addresses, pc, total_batches, i, batch, current_batch,
             response, exc, results, summary, progress, gets, responses, posts, log>>
fmtVars == <<df, formatted_addresses, fpc>>
vars == <<subVars, fmtVars>>

----------------------------------------------------------------------------
(* Bounds of the model *)

\* Most rows of a dataframe handed to the formatter.
MaxRows == 2
\* Longest address list.
MaxAddresses == 3
\* Largest positive batch size.
MaxBatchSize == 3
\* Most negative batch size is -MaxNegBatchSize.
MaxNegBatchSize == 1

----------------------------------------------------------------------------
(* JSON and Python values *)

\* A JSON value keeps its type: the string "true" is not the literal true.
JStr(s) == [t |-> "string", v |-> s]
JBool(b) == [t |-> "boolean", v |-> IF b THEN "true" ELSE "false"]
JNum(n) == [t |-> "number", v |-> ToString(n)]
JArr == [t |-> "array", v |-> "[]"]
JObj(members) == [t |-> "object", m |-> members]
PyNone == [t |-> "null", v |-> "None"]

\* Response bodies the lookup API may send, as raw text.
IdBody == "{\"id\": \"abc123\"}"
ResultsBody == "{\"results\": []}"
ArrayBody == "[]"
HtmlBody == "<html>Bad Gateway</html>"
Bodies == {IdBody, ResultsBody, ArrayBody, HtmlBody}

\* response.json() succeeds on text that is JSON.
IsJson(text) == text \in {IdBody, ResultsBody, ArrayBody}

\* response.json(): the parsed value of a JSON text.
ParseJson(text) ==
    CASE text = IdBody -> JObj([id |-> JStr("abc123")])
      [] text = ResultsBody -> JObj([results |-> JArr])
      [] text = ArrayBody -> JArr

\* data.get("id"): defined on a JSON object (a dict) only.
HasGet(data) == data.t = "object"
DictGet(data, key) == IF key \in DOMAIN data.m THEN data.m[key] ELSE PyNone

\* str(e) of the exceptions a batch can raise.
ConnectionErrorText == "Connection refused"
JSONDecodeErrorText == "Expecting value: line 1 column 1 (char 0)"
AttributeErrorText == "'list' object has no attribute 'get'"

\* What requests.get can do: raise, or return a status and a body.  Status
\* 500 stands for every status other than 200 and 202.
Outcomes ==
    {[kind |-> "exception", status |-> 0, text |-> ConnectionErrorText]}
    \cup [kind : {"response"}, status : {202}, text : Bodies]
    \cup [kind : {"response"}, status : {200}, text : {ResultsBody, HtmlBody}]
    \cup [kind : {"response"}, status : {500}, text : {HtmlBody}]
NoResponse == [kind |-> "none", status |-> 0, text |-> ""]

----------------------------------------------------------------------------
(* Pure parts of submit_batch_with_webhook *)

\* Python's floor division a // b, b # 0.
PyFloorDiv(a, b) == IF b > 0 THEN a \div b ELSE (0 - a) \div (0 - b)

\* total_batches = (len(addresses) + batch_size - 1) // batch_size
TotalBatches(n, b) == PyFloorDiv(n + b - 1, b)

\* range(0, n, b) still has the value at offset k (b # 0).
InRange_inclusive(k, n, b) == b > 0 /\ k <= n
InRange(k, n, b) == b > 0 /\ k < n

\* addresses[k:k + b], k >= 0, b > 0 (0-based, end exclusive, clipped).
Min(x, y) == IF x < y THEN x ELSE y
Slice_overlapping(s, k, b) ==
    [j \in 1..(Min(k + b, Len(s)) - Min(k, Len(s)) + (IF k > 0 THEN 1 ELSE 0))
        |-> s[Min(k, Len(s)) + j - (IF k > 0 THEN 1 ELSE 0)]]
Slice(s, k, b) ==
    [j \in 1..(Min(k + b, Len(s)) - Min(k, Len(s))) |-> s[Min(k, Len(s)) + j]]

\* Lines 56-57 as a function: the batches the loop takes from offset k on.
RECURSIVE BatchesFrom(_, _, _)
BatchesFrom(s, k, b) ==
    IF InRange(k, Len(s), b)
    THEN <<Slice(s, k, b)>> \o BatchesFrom(s, k + b, b)
    ELSE <<>>

\* Line 124: (i + len(batch)) / len(addresses), as numerator and denominator.
ProgressFraction_before(k, len, n) == <<k, n>>
ProgressFraction(k, len, n) == <<k + len, n>>

\* current_batch = i // batch_size + 1
CurrentBatch_zero_based(k, b) == PyFloorDiv(k, b)
CurrentBatch(k, b) == PyFloorDiv(k, b) + 1

\* The JSON body of the run-start notification.
TestBody_boolean == [test |-> JBool(TRUE), message |-> JStr("Starting processing")]
TestBody == [test |-> JStr("true"), message |-> JStr("Starting processing")]

\* The three shapes of a batch result.
Submitted(k, id) == [batch |-> k, status |-> "submitted", request_id |-> id]
Completed(k, data) == [batch |-> k, status |-> "completed", data |-> data]
Error(k, detail) == [batch |-> k, status |-> "error", error |-> detail]

\* f"{response.status_code} - {response.text}"
StatusDetail(r) == ToString(r.status) \o " - " \o r.text

\* Lines 76-109: what the body of the try block does with a response that
\* arrived: the result it appends, or the exception it raises.
Classify_all_success(r, k) ==
    IF ~IsJson(r.text) THEN [raise |-> TRUE, text |-> JSONDecodeErrorText]
    ELSE IF r.status = 202 /\ ~HasGet(ParseJson(r.text))
    THEN [raise |-> TRUE, text |-> AttributeErrorText]
    ELSE IF r.status = 202
    THEN [raise |-> FALSE, result |-> Submitted(k, DictGet(ParseJson(r.text), "id"))]
    ELSE [raise |-> FALSE, result |-> Completed(k, ParseJson(r.text))]
Classify(r, k) ==
    IF r.status \in {200, 202}
    THEN IF ~IsJson(r.text) THEN [raise |-> TRUE, text |-> JSONDecodeErrorText]
         ELSE IF r.status = 202
         THEN IF HasGet(ParseJson(r.text))
              THEN [raise |-> FALSE,
                    result |-> Submitted(k, DictGet(ParseJson(r.text), "id"))]
              ELSE [raise |-> TRUE, text |-> AttributeErrorText]
         ELSE [raise |-> FALSE, result |-> Completed(k, ParseJson(r.text))]
    ELSE [raise |-> FALSE, result |-> Error(k, StatusDetail(r))]

\* Lines 87-90 and 99-102: where control goes after the forward of a batch's
\* body to the webhook; a failed POST is swallowed by the bare except.
AfterForward_propagating(ok) == IF ok THEN "pause" ELSE "except"
AfterForward(ok) == "pause"

\* Lines 91-96: a result with status "completed" is forwarded too, and
\* lines 103-109: an error result is not.
Forwarded_submitted_only(status) == status = "submitted"
Forwarded(status) == status \in {"submitted", "completed"}

\* Lines 115-124: after the handler has recorded the error the loop goes on.
AfterExcept_aborting == "finish"
AfterExcept == "progress"

\* Lines 130-132: sum(1 for r in results if r["status"] == status)
RECURSIVE CountStatus(_, _)
CountStatus(rs, status) ==
    IF rs = <<>> THEN 0
    ELSE (IF Head(rs).status = status THEN 1 ELSE 0) + CountStatus(Tail(rs), status)

\* Lines 134-139.
Summary(rs, total) ==
    [total_batches |-> total,
     submitted |-> CountStatus(rs, "submitted"),
     completed |-> CountStatus(rs, "completed"),
     errors |-> CountStatus(rs, "error")]

\* Line 141: the summary is posted when a batch was submitted.
SummaryDue_always(s) == TRUE
SummaryDue_any_success(s) == s.submitted + s.completed > 0
SummaryDue(s) == s.submitted > 0

\* Lines 144-147: {"summary": True, **summary}
SummaryBody(s) ==
    [summary |-> JBool(TRUE),
     total_batches |-> JNum(s.total_batches),
     submitted |-> JNum(s.submitted),
     completed |-> JNum(s.completed),
     errors |-> JNum(s.errors)]

\* Lines 51-54: a failed run-start POST is caught and the run goes on.
AfterPreflight_uncaught(ok) == IF ok THEN "loop" ELSE "raised"
AfterPreflight(ok) == "loop"

\* Line 52: the run-start notification is posted before the loop when the
\* batch size let line 44 through.
AfterStart_no_preflight == "loop"
AfterStart == "preflight"

----------------------------------------------------------------------------
(* format_addresses_from_dataframe, lines 12-29 *)

\* A string is the sequence of its characters.
\* A cell of the dataframe: a string, or the float NaN pandas puts where
\* the CSV has no value.  s is what str() makes of the cell.
StrCell(chars) == [t |-> "str", s |-> chars]
NaN == [t |-> "float", s |-> <<"n", "a", "n">>]
Cells == {NaN, StrCell(<<" ", "a", "1", " ">>)}
Columns == {"Address", "City", "State", "Zip"}

\* The dataframes the formatter is handed: some of the columns, up to
\* MaxRows rows.
Frames ==
    UNION {UNION {[1..n -> [cols -> Cells]] : n \in 0..MaxRows} : cols \in SUBSET Columns}

\* row.get(col, '')
RowGet(row, col) == IF col \in DOMAIN row THEN row[col] ELSE StrCell(<<>>)

\* str(x)
PyStr(cell) == cell.s

\* s.strip(): whitespace off both ends.
RECURSIVE LStrip(_)
LStrip(s) == IF s # <<>> /\ Head(s) = " " THEN LStrip(Tail(s)) ELSE s
RECURSIVE RStrip(_)
RStrip(s) ==
    IF s # <<>> /\ s[Len(s)] = " " THEN RStrip(SubSeq(s, 1, Len(s) - 1)) ELSE s
Strip(s) == RStrip(LStrip(s))

\* s.upper()
UpperChar(c) == CASE c = "a" -> "A" [] c = "n" -> "N" [] OTHER -> c
Upper(s) == [j \in 1..Len(s) |-> UpperChar(s[j])]

\* Lines 20-26: the formatted string of one row.
FormatRow(row) ==
    Upper(Strip(PyStr(RowGet(row, "Address")))) \o <<",", " ">>
    \o Upper(Strip(PyStr(RowGet(row, "City")))) \o <<",", " ">>
    \o Upper(Strip(PyStr(RowGet(row, "State")))) \o <<" ">>
    \o Strip(PyStr(RowGet(row, "Zip")))

----------------------------------------------------------------------------
(* The run *)

Post(kind, k, body, ok) == [kind |-> kind, batch |-> k, body |-> body, ok |-> ok]
Event(tag, k) == <<tag, k>>
NoSummary == Summary(<<>>, 0)

\* The caller's arguments.  The address list is <<1, ..., n>>: an address
\* is named by its place in the input, so that any gap, overlap or
\* reordering of the batches shows.
BatchSizes == (0 - MaxNegBatchSize)..MaxBatchSize
AddressList(n) == [k \in 1..n |-> k]

Init ==
    /\ batch_size \in BatchSizes
    /\ addresses \in {AddressList(n) : n \in 0..MaxAddresses}
    /\ pc = "start"
    /\ total_batches = 0
    /\ i = 0
    /\ batch = <<>>
    /\ current_batch = 0
    /\ response = NoResponse
    /\ exc = ""
    /\ results = <<>>
    /\ summary = NoSummary
    /\ progress = <<>>
    /\ gets = <<>>
    /\ responses = <<>>
    /\ posts = <<>>
    /\ log = <<>>
    /\ df = <<>>
    /\ formatted_addresses = <<>>
    /\ fpc = "idle"

\* Lines 43-48.  batch_size = 0 makes line 44 raise ZeroDivisionError, which
\* nothing catches.
Start ==
    /\ UNCHANGED fmtVars
    /\ pc = "start"
    /\ IF batch_size = 0
       THEN /\ pc' = "raised"
            /\ exc' = "integer division or modulo by zero"
            /\ UNCHANGED <<total_batches, progress>>
       ELSE /\ total_batches' = TotalBatches(Len(addresses), batch_size)
            /\ progress' = Append(progress, <<0, 1>>)
            /\ pc' = AfterStart
            /\ UNCHANGED exc
    /\ UNCHANGED <<batch_size, addresses, i, batch, current_batch, response,
                   results, summary, gets, responses, posts, log>>

\* Lines 50-54: the run-start POST; a failure is warned about and ignored.
Preflight ==
    /\ UNCHANGED fmtVars
    /\ pc = "preflight"
    /\ \E ok \in BOOLEAN :
        /\ posts' = Append(posts, Post("test", 0, TestBody, ok))
        /\ pc' = AfterPreflight(ok)
    /\ log' = Append(log, Event("post_test", 0))
    /\ UNCHANGED <<batch_size, addresses, total_batches, i, batch, current_batch,
                   response, exc, results, summary, progress, gets, responses>>

\* Lines 56-74: the loop takes the next batch and issues its lookup request.
IssueRequest ==
    /\ UNCHANGED fmtVars
    /\ pc = "loop"
    /\ InRange(i, Len(addresses), batch_size)
    /\ batch' = Slice(addresses, i, batch_size)
    /\ current_batch' = CurrentBatch(i, batch_size)
    /\ gets' = Append(gets, batch')
    /\ \E out \in Outcomes :
        /\ response' = out
        /\ responses' = Append(responses, out)
        /\ IF out.kind = "exception"
           THEN pc' = "except" /\ exc' = out.text
           ELSE pc' = "classify" /\ UNCHANGED exc
    /\ log' = Append(log, Event("get", current_batch'))
    /\ UNCHANGED <<batch_size, addresses, total_batches, i, results, summary,
                   progress, posts>>

\* Lines 76-84, 91-96, 103-109: the response is parsed and its result appended.
RecordResult ==
    /\ UNCHANGED fmtVars
    /\ pc = "classify"
    /\ LET c == Classify(response, current_batch) IN
        IF c.raise
        THEN /\ pc' = "except"
             /\ exc' = c.text
             /\ UNCHANGED <<results, log>>
        ELSE /\ results' = Append(results, c.result)
             /\ log' = Append(log, Event("result", current_batch))
             /\ pc' = IF Forwarded(c.result.status) THEN "forward" ELSE "pause"
             /\ UNCHANGED exc
    /\ UNCHANGED <<batch_size, addresses, total_batches, i, batch, current_batch,
                   response, summary, progress, gets, responses, posts>>

\* Lines 86-90 and 98-102: the parsed body is POSTed to the webhook.
ForwardToWebhook ==
    /\ UNCHANGED fmtVars
    /\ pc = "forward"
    /\ \E ok \in BOOLEAN :
        /\ posts' = Append(posts, Post("batch", current_batch, ParseJson(response.text), ok))
        /\ pc' = AfterForward(ok)
        /\ exc' = IF pc' = "except" THEN ConnectionErrorText ELSE exc
    /\ log' = Append(log, Event("forward", current_batch))
    /\ UNCHANGED <<batch_size, addresses, total_batches, i, batch, current_batch,
                   response, results, summary, progress, gets, responses>>

\* Lines 111-113: time.sleep(1) unless this was the last batch.
RateLimitPause ==
    /\ UNCHANGED fmtVars
    /\ pc = "pause"
    /\ log' = IF i + batch_size < Len(addresses)
              THEN Append(log, Event("sleep", current_batch))
              ELSE log
    /\ pc' = "progress"
    /\ UNCHANGED <<batch_size, addresses, total_batches, i, batch, current_batch,
                   response, exc, results, summary, progress, gets, responses, posts>>

\* Lines 115-121: the handler of the try block records an error result.
HandleException ==
    /\ UNCHANGED fmtVars
    /\ pc = "except"
    /\ results' = Append(results, Error(current_batch, exc))
    /\ log' = Append(log, Event("result", current_batch))
    /\ pc' = AfterExcept
    /\ UNCHANGED <<batch_size, addresses, total_batches, i, batch, current_batch,
                   response, exc, summary, progress, gets, responses, posts>>

\* Lines 123-124 and the loop's step: progress, then the next offset.
UpdateProgress ==
    /\ UNCHANGED fmtVars
    /\ pc = "progress"
    /\ progress' = Append(progress, ProgressFraction(i, Len(batch), Len(addresses)))
    /\ log' = Append(log, Event("progress", current_batch))
    /\ i' = i + batch_size
    /\ pc' = "loop"
    /\ UNCHANGED <<batch_size, addresses, total_batches, batch, current_batch,
                   response, exc, results, summary, gets, responses, posts>>

\* Line 56, range exhausted.
ExitLoop ==
    /\ UNCHANGED fmtVars
    /\ pc = "loop"
    /\ ~InRange(i, Len(addresses), batch_size)
    /\ pc' = "finish"
    /\ UNCHANGED <<batch_size, addresses, total_batches, i, batch, current_batch,
                   response, exc, results, summary, progress, gets, responses,
                   posts, log>>

\* Lines 126-139: final progress and the summary.
Summarize ==
    /\ UNCHANGED fmtVars
    /\ pc = "finish"
    /\ progress' = Append(progress, <<1, 1>>)
    /\ summary' = Summary(results, total_batches)
    /\ pc' = IF SummaryDue(summary') THEN "post_summary" ELSE "return"
    /\ UNCHANGED <<batch_size, addresses, total_batches, i, batch, current_batch,
                   response, exc, results, gets, responses, posts, log>>

\* Lines 141-149: the summary POST; a failure is swallowed.
PostSummary ==
    /\ UNCHANGED fmtVars
    /\ pc = "post_summary"
    /\ \E ok \in BOOLEAN :
        posts' = Append(posts, Post("summary", 0, SummaryBody(summary), ok))
    /\ log' = Append(log, Event("post_summary", 0))
    /\ pc' = "return"
    /\ UNCHANGED <<batch_size, addresses, total_batches, i, batch, current_batch,
                   response, exc, results, summary, progress, gets, responses>>

\* Line 151: return results, summary.
Return ==
    /\ UNCHANGED fmtVars
    /\ pc = "return"
    /\ pc' = "done"
    /\ log' = Append(log, Event("return", 0))
    /\ UNCHANGED <<batch_size, addresses, total_batches, i, batch, current_batch,
                   response, exc, results, summary, progress, gets, responses, posts>>

Next ==
    \/ Start
    \/ Preflight
    \/ IssueRequest
    \/ RecordResult
    \/ ForwardToWebhook
    \/ RateLimitPause
    \/ HandleException
    \/ UpdateProgress
    \/ ExitLoop
    \/ Summarize
    \/ PostSummary
    \/ Return

Spec == Init /\ [][Next]_vars

\* The run is one thread of straight-line code and blocking calls: it takes
\* its next step whenever it has one, every HTTP call returning or failing.
LiveSpec == Spec /\ WF_vars(Next)

----------------------------------------------------------------------------
(* One call of format_addresses_from_dataframe *)

\* The state at the call: the submitter does not run.
InitFormat ==
    /\ batch_size = 1
    /\ addresses = <<>>
    /\ pc = "idle"
    /\ total_batches = 0
    /\ i = 0
    /\ batch = <<>>
    /\ current_batch = 0
    /\ response = NoResponse
    /\ exc = ""
    /\ results = <<>>
    /\ summary = NoSummary
    /\ progress = <<>>
    /\ gets = <<>>
    /\ responses = <<>>
    /\ posts = <<>>
    /\ log = <<>>
    /\ df \in Frames
    /\ formatted_addresses = <<>>
    /\ fpc = "rows"

\* Lines 19-27: one iteration of the loop over df.iterrows().
FormatNextRow ==
    /\ fpc = "rows"
    /\ Len(formatted_addresses) < Len(df)
    /\ formatted_addresses' =
        Append(formatted_addresses, FormatRow(df[Len(formatted_addresses) + 1]))
    /\ UNCHANGED <<df, fpc, subVars>>

\* Line 29: return formatted_addresses.
FormatReturn ==
    /\ fpc = "rows"
    /\ Len(formatted_addresses) = Len(df)
    /\ fpc' = "returned"
    /\ UNCHANGED <<df, formatted_addresses, subVars>>

NextFormat ==
    \/ FormatNextRow
    \/ FormatReturn

FormatSpec == InitFormat /\ [][NextFormat]_vars

----------------------------------------------------------------------------
(* Vocabulary of the properties *)

Returned == pc = "done"
NumAddresses == Len(addresses)

\* ceil(n / b) for b > 0, from its definition: the least m with m * b >= n.
Ceil(n, b) == CHOOSE m \in 0..n : m * b >= n /\ \A m2 \in 0..n : m2 * b >= n => m <= m2

RECURSIVE Flatten(_)
Flatten(ss) == IF ss = <<>> THEN <<>> ELSE Head(ss) \o Flatten(Tail(ss))

\* Batch k's processing is over: its result and any forward are behind.
Settled(k) ==
    \/ k < Len(gets)
    \/ k = Len(gets) /\ pc \in {"progress", "loop", "finish", "post_summary", "return", "done"}

ResultsFor(k) == {j \in 1..Len(results) : results[j].batch = k}
ResultOf(k) == results[CHOOSE j \in ResultsFor(k) : TRUE]
PostsOfKind(kind) == {j \in 1..Len(posts) : posts[j].kind = kind}
ForwardsFor(k) == {j \in PostsOfKind("batch") : posts[j].batch = k}
StatusesRecorded == {results[j].status : j \in 1..Len(results)}

\* The lookup call of a batch failed: it raised, or its status is not 200/202.
Failing(r) == r.kind = "exception" \/ r.status \notin {200, 202}

----------------------------------------------------------------------------
(* C1 *)

\* C1: when a run with batch_size > 0 returns, submitted + completed + errors
\* equals total_batches, the results list has total_batches entries, and every
\* batch 1..total_batches has exactly one result.
C1_OneResultPerBatch ==
    (Returned /\ batch_size > 0) =>
        /\ summary.submitted + summary.completed + summary.errors = summary.total_batches
        /\ Len(results) = summary.total_batches
        /\ \A k \in 1..summary.total_batches : Cardinality(ResultsFor(k)) = 1

\* A returned run of three batches with all three result variants, an
\* unparsable body, a transport exception and a failed webhook POST.
C1_Witness ==
    /\ Returned /\ batch_size > 0 /\ summary.total_batches = 3
    /\ StatusesRecorded = {"submitted", "completed", "error"}
    /\ \E j \in 1..Len(posts) : ~posts[j].ok
    /\ \E k \in 1..Len(responses) : responses[k].kind = "exception"

----------------------------------------------------------------------------
(* C2 *)

\* The spec's example: 45 addresses in batches of 20.
Example45 == BatchesFrom(AddressList(45), 0, 20)

\* C2: for batch_size b > 0 and n addresses the batches sent are slices of
\* length <= b, all but the last of length b, ceil(n/b) = total_batches of
\* them, and their concatenation in order is the input list; 45 addresses in
\* batches of 20 give sizes 20, 20, 5 and total_batches = 3.
C2_BatchesPartitionInput ==
    /\ (Returned /\ batch_size > 0) =>
        /\ Len(gets) = Ceil(NumAddresses, batch_size)
        /\ Len(gets) = total_batches
        /\ \A j \in 1..Len(gets) :
            /\ Len(gets[j]) <= batch_size
            /\ Len(gets[j]) >= 1
            /\ j < Len(gets) => Len(gets[j]) = batch_size
        /\ Flatten(gets) = addresses
    /\ (batch_size > 0 /\ pc # "start") =>
        /\ total_batches = Ceil(NumAddresses, batch_size)
        /\ Flatten(gets) = [j \in 1..Len(Flatten(gets)) |-> addresses[j]]
    /\ [j \in 1..Len(Example45) |-> Len(Example45[j])] = <<20, 20, 5>>
    /\ Flatten(Example45) = AddressList(45)
    /\ TotalBatches(45, 20) = 3

\* A returned run whose last batch is shorter than the others.
C2_Witness ==
    /\ Returned /\ batch_size = 2 /\ NumAddresses = 3
    /\ gets = <<<<1, 2>>, <<3>>>>

----------------------------------------------------------------------------
(* C3 *)

\* C3: a batch whose lookup call raised or returned a status other than
\* 200/202 gets exactly one result, an error; the summary counts one error
\* per error result; and the run still issues the request of every batch.
C3_FailingBatchDoesNotAbort ==
    /\ \A k \in 1..Len(responses) :
        (Failing(responses[k]) /\ Settled(k)) =>
            /\ Cardinality(ResultsFor(k)) = 1
            /\ ResultOf(k).status = "error"
    /\ (Returned /\ batch_size > 0) =>
        /\ summary.errors = Cardinality({k \in 1..Len(results) : results[k].status = "error"})
        /\ summary.errors >= Cardinality({k \in 1..Len(responses) : Failing(responses[k])})
        /\ Len(gets) = Ceil(NumAddresses, batch_size)
        /\ \A k \in 1..Ceil(NumAddresses, batch_size) :
            \E j \in 1..Len(log) : log[j] = Event("get", k)

\* The first batch raised, the second returned 500, and the third was
\* still requested.
C3_Witness ==
    /\ Len(responses) = 3
    /\ responses[1].kind = "exception"
    /\ responses[2].kind = "response" /\ responses[2].status = 500
    /\ Returned /\ summary.errors = 2

----------------------------------------------------------------------------
(* C4 *)

\* The result the claim gives a response, case by case.
C4_Variant(r, k) ==
    IF r.kind = "exception" THEN Error(k, r.text)
    ELSE IF r.status = 202 /\ r.text = IdBody THEN Submitted(k, JStr("abc123"))
    ELSE IF r.status = 202 /\ r.text = ResultsBody THEN Submitted(k, PyNone)
    ELSE IF r.status = 202 /\ r.text = ArrayBody THEN Error(k, AttributeErrorText)
    ELSE IF r.status = 200 /\ r.text = ResultsBody THEN Completed(k, JObj([results |-> JArr]))
    ELSE IF r.status \in {200, 202} THEN Error(k, JSONDecodeErrorText)
    ELSE Error(k, ToString(r.status) \o " - " \o r.text)

\* C4 as stated: every status 202 with a JSON body is recorded as submitted.
C4_Original ==
    \A k \in 1..Len(responses) :
        (Settled(k) /\ responses[k].kind = "response" /\ responses[k].status = 202
            /\ IsJson(responses[k].text)) =>
                \A j \in ResultsFor(k) : results[j].status = "submitted"

\* C4 (amended): the result of a batch is a function of its lookup response:
\* 202 with a JSON object gives submitted with the object's id (None when it
\* has none); 202 with JSON that is not an object gives error with the
\* exception's description; 200 with JSON gives completed with the body; an
\* unparsable 200/202 body or a transport exception gives error with the
\* exception's description; any other status gives error with "status - text".
C4_VariantFollowsResponse ==
    \A k \in 1..Len(responses) :
        Settled(k) =>
            /\ ResultsFor(k) # {}
            /\ \A j \in ResultsFor(k) : results[j] = C4_Variant(responses[k], k)

\* Settled batches answered 202 with a JSON array, 202 with an id, 200 with
\* an unparsable body.
C4_Witness ==
    /\ Len(responses) = 3 /\ Settled(3)
    /\ responses[1] = [kind |-> "response", status |-> 202, text |-> ArrayBody]
    /\ responses[2] = [kind |-> "response", status |-> 202, text |-> IdBody]
    /\ responses[3] = [kind |-> "response", status |-> 200, text |-> HtmlBody]

----------------------------------------------------------------------------
(* C5 *)

\* C5 as stated: every batch of a returned run, whatever its result, had a
\* POST to the webhook attempted for it.
C5_Original ==
    (Returned /\ batch_size > 0) =>
        \A k \in 1..total_batches : ForwardsFor(k) # {}

\* C5 (amended): a batch recorded as submitted or completed has exactly one
\* POST to the webhook attempted for it, carrying the parsed response body; a
\* batch recorded as error has none.
C5_SuccessesAreForwarded ==
    \A k \in 1..Len(responses) :
        Settled(k) =>
            \A j \in ResultsFor(k) :
                IF results[j].status \in {"submitted", "completed"}
                THEN /\ Cardinality(ForwardsFor(k)) = 1
                     /\ \A f \in ForwardsFor(k) :
                            posts[f].body = ParseJson(responses[k].text)
                ELSE ForwardsFor(k) = {}

\* A returned run with a submitted, a completed and an error batch.
C5_Witness ==
    /\ Returned /\ Len(results) = 3
    /\ results[1].status = "completed"
    /\ results[2].status = "error"
    /\ results[3].status = "submitted"

----------------------------------------------------------------------------
(* C6 *)

\* The results a run has recorded, as far as its lookup responses decide.
C6_ResultsFromResponses ==
    [k \in 1..Len(results) |-> C4_Variant(responses[k], k)]

\* C6: whichever webhook POSTs fail, a run with a non-zero batch size raises
\* nothing, its results are those its lookup responses alone decide (a
\* 200/202 batch whose forward failed stays completed/submitted), its summary
\* counts those results, and no POST is attempted twice.
C6_WebhookFailuresInvisible ==
    /\ batch_size # 0 => pc # "raised"
    /\ Len(results) <= Len(responses)
    /\ results = C6_ResultsFromResponses
    /\ \A k \in 1..Len(responses) : Settled(k) => Len(results) >= k
    /\ Returned =>
        /\ Len(results) = Len(responses)
        /\ summary = Summary(C6_ResultsFromResponses, total_batches)
    /\ Cardinality(PostsOfKind("test")) <= 1
    /\ Cardinality(PostsOfKind("summary")) <= 1
    /\ \A k \in 1..Len(responses) : Cardinality(ForwardsFor(k)) <= 1

\* A returned run in which every webhook POST failed: the notification, the
\* forwards of a submitted and of a completed batch, and the summary.
C6_Witness ==
    /\ Returned /\ Len(results) = 2
    /\ results[1].status = "submitted" /\ results[2].status = "completed"
    /\ Len(posts) = 4
    /\ \A j \in 1..Len(posts) : ~posts[j].ok
    /\ summary.submitted = 1 /\ summary.completed = 1 /\ summary.errors = 0

----------------------------------------------------------------------------
(* C7 *)

Invalid == batch_size <= 0 \/ addresses = <<>>

\* C7 as stated: with batch_size <= 0 or an empty list no request is sent
\* and the run does not return a summary.
C7_Original ==
    Invalid => (posts = <<>> /\ gets = <<>> /\ ~Returned)

\* C7 (amended): batch_size = 0 stops the run before it starts: it raises
\* before any outbound request and returns nothing.  A negative batch_size
\* or an empty list does not: no lookup request is sent and no result is
\* recorded, but the run-start POST is attempted and the run returns a
\* summary with zero submitted, completed and errors (total_batches 0 for an
\* empty list and a positive batch size).
C7_OnlyZeroBatchSizeStops ==
    /\ batch_size = 0 =>
        /\ posts = <<>> /\ gets = <<>> /\ results = <<>>
        /\ pc \in {"start", "raised"}
    /\ (Invalid /\ batch_size # 0) =>
        /\ gets = <<>> /\ results = <<>>
        /\ pc # "raised"
        /\ Returned =>
            /\ Len(posts) = 1 /\ posts[1].kind = "test"
            /\ summary.submitted = 0 /\ summary.completed = 0 /\ summary.errors = 0
            /\ (batch_size > 0 => summary.total_batches = 0)

\* A run with a negative batch size and a non-empty list has returned.
C7_Witness == Returned /\ batch_size < 0 /\ NumAddresses > 0 /\ posts # <<>>

----------------------------------------------------------------------------
(* C8 *)

\* C8: the summary POST is attempted once when a batch was recorded as
\* submitted and never otherwise; when it is attempted, every batch has its
\* result and any forward behind it, and its body carries summary = true and
\* the four counts of the summary the run returns.
C8_SummaryPostOnceIffSubmitted ==
    /\ Cardinality(PostsOfKind("summary")) <= 1
    /\ Returned =>
        Cardinality(PostsOfKind("summary")) =
            (IF "submitted" \in StatusesRecorded THEN 1 ELSE 0)
    /\ \A j \in PostsOfKind("summary") :
        /\ j = Len(posts)
        /\ pc \in {"return", "done"}
        /\ log[Len(log) - (IF Returned THEN 1 ELSE 0)] = Event("post_summary", 0)
        /\ Len(results) = Len(gets)
        /\ batch_size > 0 => Len(results) = Ceil(NumAddresses, batch_size)
        /\ posts[j].body.summary = JBool(TRUE)
        /\ posts[j].body.total_batches = JNum(summary.total_batches)
        /\ posts[j].body.submitted = JNum(summary.submitted)
        /\ posts[j].body.completed = JNum(summary.completed)
        /\ posts[j].body.errors = JNum(summary.errors)
        /\ DOMAIN posts[j].body = {"summary", "total_batches", "submitted", "completed", "errors"}

\* A returned run that posted its summary after a submitted and an error batch.
C8_Witness ==
    /\ Returned /\ PostsOfKind("summary") # {}
    /\ summary = [total_batches |-> 2, submitted |-> 1, completed |-> 0, errors |-> 1]

----------------------------------------------------------------------------
(* C9 *)

\* C9: a run (whose batch size let it start) attempts the run-start POST
\* exactly once, before its first lookup request, and whether that POST
\* succeeds or fails every batch is then requested and gets its result.
C9_OneNotificationFirst ==
    /\ Cardinality(PostsOfKind("test")) <= 1
    /\ (batch_size # 0 /\ pc \notin {"start", "preflight"}) =>
        /\ Cardinality(PostsOfKind("test")) = 1
        /\ posts[1].kind = "test"
        /\ log[1] = Event("post_test", 0)
    /\ gets # <<>> => PostsOfKind("test") # {}
    /\ pc # "raised" \/ batch_size = 0
    /\ (Returned /\ batch_size > 0) =>
        /\ Len(gets) = Ceil(NumAddresses, batch_size)
        /\ Len(results) = Ceil(NumAddresses, batch_size)

\* A returned run of two batches whose run-start POST failed.
C9_Witness ==
    /\ Returned /\ Len(gets) = 2 /\ Len(results) = 2
    /\ posts[1].kind = "test" /\ ~posts[1].ok

----------------------------------------------------------------------------
(* C10 *)

\* C10 as stated: the body of the run-start POST is
\* {"test": true, "message": "Starting processing"}, test the boolean true.
C10_Original ==
    \A j \in PostsOfKind("test") :
        posts[j].body = [test |-> [t |-> "boolean", v |-> "true"],
                         message |-> [t |-> "string", v |-> "Starting processing"]]

\* C10 (amended): the body of the run-start POST is
\* {"test": "true", "message": "Starting processing"}, test the string "true".
C10_TestIsString ==
    \A j \in PostsOfKind("test") :
        posts[j].body = [test |-> [t |-> "string", v |-> "true"],
                         message |-> [t |-> "string", v |-> "Starting processing"]]

\* The run-start POST has been attempted.
C10_Witness == PostsOfKind("test") # {} /\ pc = "loop" /\ gets = <<>>

----------------------------------------------------------------------------
(* C11 *)

\* A field of a row is missing: the column is absent or the cell has no value.
Missing(row, col) == col \notin DOMAIN row \/ row[col] = NaN

\* The segment the claim gives a field.
C11_Segment(row, col) ==
    IF Missing(row, col) THEN <<>>
    ELSE IF col = "Zip" THEN Strip(row[col].s)
    ELSE Upper(Strip(row[col].s))

\* C11: the formatter returns one string per row, in order, the i-th built
\* from the i-th row as "ADDRESS, CITY, STATE ZIP" with every field trimmed,
\* address, city and state upper-cased, and a missing field (absent column
\* or absent cell value) rendered as an empty segment.
C11_Original ==
    fpc = "returned" =>
        /\ Len(formatted_addresses) = Len(df)
        /\ \A r \in 1..Len(df) :
            formatted_addresses[r] =
                C11_Segment(df[r], "Address") \o <<",", " ">>
                \o C11_Segment(df[r], "City") \o <<",", " ">>
                \o C11_Segment(df[r], "State") \o <<" ">>
                \o C11_Segment(df[r], "Zip")

----------------------------------------------------------------------------
(* C12 *)

\* Places of the log where an event stands.
At(ev) == {j \in 1..Len(log) : log[j] = ev}

\* C12: before the request of every batch but the first the run has paused
\* after the batch before it, whatever that batch's outcome, and it never
\* pauses after the last batch.
C12_Original ==
    /\ \A j \in 1..Len(log) :
        (log[j][1] = "get" /\ log[j][2] > 1) =>
            \E m \in 1..(j - 1) : log[m] = Event("sleep", log[j][2] - 1)
    /\ (Returned /\ batch_size > 0) => At(Event("sleep", total_batches)) = {}

----------------------------------------------------------------------------
(* C13 *)

\* The lookup requests of the log, in order.
GetEvents == SelectSeq(log, LAMBDA ev : ev[1] = "get")

\* C13: the lookup requests are issued one per batch in the order 1, 2, ...;
\* when batch k + 1 is requested, batch k has its result, and its forward if
\* it has one, behind it; and a request is outstanding only while the run
\* waits for it, so never two at once.
C13_StrictlySequential ==
    /\ GetEvents = [k \in 1..Len(gets) |-> Event("get", k)]
    /\ Len(responses) = Len(gets)
    /\ (Returned /\ batch_size > 0) => Len(gets) = Ceil(NumAddresses, batch_size)
    /\ \A k \in 1..Len(gets) : \A j \in At(Event("get", k)) :
        k > 1 =>
            /\ \E m \in At(Event("result", k - 1)) : m < j
            /\ \A m \in At(Event("forward", k - 1)) : m < j
            /\ Len(results) >= k - 1
            /\ Cardinality(ForwardsFor(k - 1)) =
                (IF results[k - 1].status = "error" THEN 0 ELSE 1)
    /\ \A k \in 1..Len(gets) :
        \A m \in At(Event("result", k)) \cup At(Event("forward", k)) :
            \E j \in At(Event("get", k)) : j < m

\* The third batch has been requested after a forwarded first batch and a
\* failed second one.
C13_Witness ==
    /\ Len(gets) = 3 /\ pc = "classify"
    /\ Len(results) = 2
    /\ results[1].status = "submitted" /\ results[2].status = "error"

----------------------------------------------------------------------------
(* C14 *)

\* The values reported after the batches: progress without the 0 the run
\* starts with and the 1.0 it ends with.
BatchReports ==
    SubSeq(progress, 2,
           IF pc \in {"post_summary", "return", "done"}
           THEN Len(progress) - 1 ELSE Len(progress))

\* C14: once a batch is over, whatever its outcome, its progress has been
\* reported; the k-th report is min(k * batch_size, n) / n, so the reports
\* grow strictly, lie in (0, 1] and end at 1; with n = 0 nothing is
\* reported by the loop, so nothing is divided by len(addresses) = 0.
C14_ProgressAfterEveryBatch ==
    (batch_size > 0 /\ pc # "start") =>
        /\ pc \in {"loop", "finish", "post_summary", "return", "done"} =>
            Len(BatchReports) = Len(gets)
        /\ \A k \in 1..Len(BatchReports) :
            /\ NumAddresses > 0
            /\ BatchReports[k] = <<Min(k * batch_size, NumAddresses), NumAddresses>>
            /\ 0 < BatchReports[k][1] /\ BatchReports[k][1] <= BatchReports[k][2]
            /\ k > 1 => BatchReports[k - 1][1] < BatchReports[k][1]
        /\ (Returned /\ NumAddresses > 0) =>
            /\ Len(BatchReports) = Ceil(NumAddresses, batch_size)
            /\ BatchReports[Len(BatchReports)] = <<NumAddresses, NumAddresses>>
        /\ (Returned /\ NumAddresses = 0) => BatchReports = <<>>

\* Three batches, one raised, one answered 500, one completed; all reported.
C14_Witness ==
    /\ Returned /\ batch_size = 1
    /\ BatchReports = <<<<1, 3>>, <<2, 3>>, <<3, 3>>>>
    /\ responses[1].kind = "exception" /\ responses[2].status = 500
    /\ results[3].status = "completed"

----------------------------------------------------------------------------
(* C15 *)

\* The loop is behind the run.
PastLoop == pc \in {"finish", "post_summary", "return", "done"}

\* C15: a run with batch_size > 0 eventually returns, and it leaves the loop
\* only with every one of its total_batches batches requested and recorded.
C15_RunTerminates ==
    /\ (batch_size > 0) ~> Returned
    /\ []((PastLoop /\ batch_size > 0) =>
            /\ Len(gets) = total_batches
            /\ Len(results) = total_batches
            /\ total_batches = Ceil(NumAddresses, batch_size))

\* A run of three batches has returned.
C15_Witness == Returned /\ batch_size = 1 /\ Len(gets) = 3 /\ Len(results) = 3

----------------------------------------------------------------------------
(* C16 *)

\* C16: the j-th entry of results carries batch index j; between batches
\* the list has one entry per batch processed, and at return one per batch
\* 1..total_batches; a step of the run only appends to the list.
C16_ResultsInBatchOrder ==
    /\ [](/\ \A j \in 1..Len(results) : results[j].batch = j
          /\ pc = "loop" => Len(results) = Len(gets)
          /\ (Returned /\ batch_size > 0) =>
                {results[j].batch : j \in 1..Len(results)} = 1..total_batches)
    /\ [][/\ Len(results') >= Len(results)
          /\ Len(results') <= Len(results) + 1
          /\ SubSeq(results', 1, Len(results)) = results]_vars

\* Two batches are recorded and the third is being processed.
C16_Witness ==
    /\ Len(results) = 2 /\ Len(gets) = 3 /\ pc = "classify"
    /\ results[1].batch = 1 /\ results[2].batch = 2

----------------------------------------------------------------------------
(* C17 *)

\* C17: a returned run with batch_size > 0 has attempted exactly
\* 1 + submitted + completed + (1 if submitted > 0 else 0) webhook POSTs; a
\* forward is attempted once for each submitted or completed batch, after
\* its result was recorded, and never for an error batch.
C17_PostCount ==
    /\ (Returned /\ batch_size > 0) =>
        /\ Len(posts) = 1 + summary.submitted + summary.completed
                          + (IF summary.submitted > 0 THEN 1 ELSE 0)
        /\ Cardinality(PostsOfKind("batch")) = summary.submitted + summary.completed
    /\ \A k \in 1..Len(gets) :
        /\ Cardinality(At(Event("forward", k))) = Cardinality(ForwardsFor(k))
        /\ Cardinality(At(Event("forward", k))) <= 1
        /\ \A f \in At(Event("forward", k)) :
            /\ \E m \in At(Event("result", k)) : m < f
            /\ Len(results) >= k
            /\ results[k].status \in {"submitted", "completed"}
        /\ (Settled(k) /\ Len(results) >= k /\ results[k].status # "error") =>
            At(Event("forward", k)) # {}

\* A returned run with a completed batch and an error batch: two POSTs.
C17_Witness ==
    /\ Returned /\ Len(results) = 2 /\ Len(posts) = 2
    /\ results[1].status = "error" /\ results[2].status = "completed"

====
